---- MODULE Spec2Model ----
(***************************************************************************)
(* PeopleSync API: the friends router (src/api/router/users/friends.js),   *)
(* the groups router (src/unnamed/part_000), the chats router              *)
(* (src/api/router/users/register.js), the messages router                 *)
(* (src/api/router/messages/index.js) and the socket.io rooms              *)
(* (src/unnamed/part_004) over the Mongoose models User, Group, Chat and   *)
(* Message.                                                                *)
(*                                                                         *)
(* Every request handler is one action.  A handler loads Mongoose          *)
(* documents (private copies of stored records), changes them and calls    *)
(* save(); save() sends only the changes of that document: an array that   *)
(* was pushed to is sent as $push, an array that was assigned a different  *)
(* value is sent as $set guarded by the record's version key __v (the      *)
(* schemas keep Mongoose's default versionKey), and an array assigned an   *)
(* equal value is not sent at all.                                         *)
(***************************************************************************)
EXTENDS Integers, Sequences, FiniteSets, TLC

\* ---------------------------------------------------------------- bounds
\* most entries in all friends and friendRequests arrays together
MaxEntries == 4
\* most groups ever created
MaxGroups == 2
\* most entries in all groups' participants arrays together
MaxMembers == 3
\* most chats ever created
MaxChats == 2
\* most entries in all chats' participants arrays together
MaxChatMembers == 4
\* most messages ever posted
MaxMessages == 2

\* ------------------------------------------------------- program constants
\* res.sendStatus / res.status codes
Ok == 200
Created == 201
BadRequest == 400
Forbidden == 403
NotFound == 404
Conflict == 409
Internal == 500

\* ---------------------------------------------------------------- inputs
\* the registered users; a user's _id is identified with its unique username
Users == {"alice", "bob", "carol"}
\* a well-formed username / ObjectId that names no stored user
Ghost == "ghost"
\* an absent (undefined or empty) request field
Missing == ""
Usernames == Users \cup {Ghost, Missing}
UserIds == Users \cup {Ghost}
GroupIds == 1..MaxGroups
\* a well-formed ObjectId that no stored document carries
GhostId == MaxGroups + 1
\* the connected sockets
Sockets == {"s1", "s2"}
\* an absent chat / group field of a request body or of a message
Unset == 0
\* the POST /messages requests that may be in flight together
Tasks == {"t1", "t2"}

VARIABLES
  users,     \* the users collection: _id -> [friends, friendRequests, groups]
  groups,    \* the groups collection: groups[g] is the group with _id g
  chats,     \* the chats collection: chats[i] is the chat with _id ChatId(i)
  messages,  \* the messages collection: messages[m] is the message with _id m
  rooms,     \* socket.io: the rooms each connected socket has joined
  inbox,     \* the newMessage events each socket has received, in order
  tasks,     \* the POST /messages handlers in flight, each at its await
  resp,      \* the last request and the status of its response
  before     \* the state as it was when the last request arrived

vars == <<users, groups, chats, messages, rooms, inbox, tasks, resp, before>>

\* ------------------------------------------------------------- array helpers
\* Array.prototype.includes on a Mongoose array of ObjectIds
Includes(arr, id) == \E i \in DOMAIN arr : arr[i] = id

\* a removal that drops the first occurrence only
FilterOutFirst(arr, x) ==
  IF \E i \in DOMAIN arr : arr[i] = x
    THEN LET k == CHOOSE i \in DOMAIN arr :
                    arr[i] = x /\ \A j \in 1..(i - 1) : arr[j] # x
         IN SubSeq(arr, 1, k - 1) \o SubSeq(arr, k + 1, Len(arr))
    ELSE arr

\* arr.filter(id => !id.equals(x))
FilterOut(arr, x) == SelectSeq(arr, LAMBDA e : e # x)

\* number of occurrences of x in arr
Count(arr, x) == Cardinality({i \in DOMAIN arr : arr[i] = x})

RECURSIVE SumLen(_, _)
SumLen(f, S) ==
  IF S = {} THEN 0
  ELSE LET u == CHOOSE x \in S : TRUE IN Len(f[u]) + SumLen(f, S \ {u})

\* entries in all friends and friendRequests arrays together
Entries(us) ==
  SumLen([u \in Users |-> us[u].friends \o us[u].friendRequests], Users)

\* ------------------------------------------------------------ Mongoose save
\* The changes a user document has accumulated since it was loaded.
NoDelta ==
  [setFriends |-> FALSE, friends |-> <<>>,
   setRequests |-> FALSE, friendRequests |-> <<>>,
   pushFriends |-> <<>>, pushRequests |-> <<>>]

\* doc.path = value: the path is modified only when value differs from the
\* loaded one.
AssignFriends(delta, loaded, value) ==
  IF value = loaded THEN delta
  ELSE [delta EXCEPT !.setFriends = TRUE, !.friends = value]

AssignRequests(delta, loaded, value) ==
  IF value = loaded THEN delta
  ELSE [delta EXCEPT !.setRequests = TRUE, !.friendRequests = value]

PushFriends(delta, id) == [delta EXCEPT !.pushFriends = Append(@, id)]

PushRequests(delta, id) == [delta EXCEPT !.pushRequests = Append(@, id)]

IsModified(delta) ==
  \/ delta.setFriends
  \/ delta.setRequests
  \/ delta.pushFriends # <<>>
  \/ delta.pushRequests # <<>>

\* $set of an array carries the loaded __v in the update's filter
NeedsVersion(delta) == delta.setFriends \/ delta.setRequests

ApplyDelta(rec, delta) ==
  [rec EXCEPT
     !.friends = (IF delta.setFriends THEN delta.friends ELSE @)
                   \o delta.pushFriends,
     !.friendRequests = (IF delta.setRequests THEN delta.friendRequests ELSE @)
                          \o delta.pushRequests]

\* a save without the version condition: the last writer wins
SaveNoVersion(store, id, delta, stale) ==
  IF ~IsModified(delta)
    THEN [ok |-> TRUE, wrote |-> FALSE, store |-> store]
    ELSE [ok |-> TRUE, wrote |-> TRUE,
          store |-> [store EXCEPT ![id] = ApplyDelta(@, delta)]]

\* doc.save() of the user document of record id against the collection
\* store.  stale: the record was written (its __v incremented) after this
\* document was loaded.  An unmodified document sends nothing; a versioned
\* update of a stale document matches no record and save() throws
\* VersionError.
Save(store, id, delta, stale) ==
  IF ~IsModified(delta)
    THEN [ok |-> TRUE, wrote |-> FALSE, store |-> store]
  ELSE IF NeedsVersion(delta) /\ stale
    THEN [ok |-> FALSE, wrote |-> FALSE, store |-> store]
  ELSE [ok |-> TRUE, wrote |-> TRUE,
        store |-> [store EXCEPT ![id] = ApplyDelta(@, delta)]]

\* await friend.save(); await user.save(): the two documents of one handler,
\* both loaded before either is saved.  A throwing save() skips the rest.
SaveBoth(store, friendId, friendDelta, userId, userDelta) ==
  LET s1 == Save(store, friendId, friendDelta, FALSE)
      s2 == Save(s1.store, userId, userDelta, userId = friendId /\ s1.wrote)
  IN IF ~s1.ok THEN [ok |-> FALSE, store |-> s1.store]
     ELSE [ok |-> s2.ok, store |-> s2.store]

\* ------------------------------------------------------------------- state
\* no request is being answered
NoResp ==
  [op |-> "none", actor |-> Missing, target |-> Missing, group |-> 0,
   body |-> <<>>, status |-> 0, payload |-> <<>>, sends |-> 0]

\* a handler slot with no POST /messages request in it
NoTask ==
  [pc |-> "idle", actor |-> Missing, content |-> Missing, chat |-> Unset,
   group |-> Unset, timestamp |-> 0, id |-> Unset]

\* the collections, rooms and received events of the current state
Snapshot ==
  [users |-> users, groups |-> groups, chats |-> chats,
   messages |-> messages, rooms |-> rooms, inbox |-> inbox]

Init ==
  /\ users = [u \in Users |-> [friends |-> <<>>, friendRequests |-> <<>>,
                               groups |-> <<>>]]
  /\ groups = <<>>
  /\ chats = <<>>
  /\ messages = <<>>
  /\ rooms = [s \in Sockets |-> {}]
  /\ inbox = [s \in Sockets |-> <<>>]
  /\ tasks = [t \in Tasks |-> NoTask]
  /\ resp = NoResp
  /\ before = Snapshot

\* requests are handled one at a time: a handler starts when the previous
\* response has gone out
Idle == resp.op = "none"

\* the handler answers status and leaves the collections as given
Respond(op, actor, target, group, status, newUsers, newGroups) ==
  /\ users' = newUsers
  /\ groups' = newGroups
  /\ resp' = [op |-> op, actor |-> actor, target |-> target, group |-> group,
              body |-> <<>>, status |-> status, payload |-> <<>>,
              sends |-> 1]
  /\ before' = Snapshot
  /\ UNCHANGED <<chats, messages, rooms, inbox, tasks>>

\* a handler that answers status with a JSON payload and leaves the messages
\* as given; it writes nothing else
Reply(op, actor, body, status, payload, newMessages) ==
  /\ messages' = newMessages
  /\ resp' = [op |-> op, actor |-> actor, target |-> Missing, group |-> 0,
              body |-> body, status |-> status, payload |-> payload,
              sends |-> 1]
  /\ before' = Snapshot
  /\ UNCHANGED <<users, groups, chats, rooms, inbox, tasks>>

\* a handler that writes nothing and calls res.sendStatus / res.json sends
\* times; the client receives the first of them, status, if there is one
ReplyTimes(op, actor, body, status, sends) ==
  /\ resp' = [op |-> op, actor |-> actor, target |-> Missing, group |-> 0,
              body |-> body, status |-> status, payload |-> <<>>,
              sends |-> sends]
  /\ before' = Snapshot
  /\ UNCHANGED <<users, groups, chats, messages, rooms, inbox, tasks>>

\* the response has gone out and the server takes the next request
NextRequest ==
  /\ ~Idle
  /\ resp' = NoResp
  /\ before' = Snapshot
  /\ UNCHANGED <<users, groups, chats, messages, rooms, inbox, tasks>>

\* ---------------------------------------------------------- friends router
\* the handlers without their check of a missing username
RejectedNoBodyCheck(op, actor, username) ==
  /\ username \in {Missing, Ghost}
  /\ Respond(op, actor, username, 0, NotFound, users, groups)

\* the answer shared by the four friends handlers when username is missing
\* or names no user
Rejected(op, actor, username) ==
  \/ /\ username = Missing
     /\ Respond(op, actor, username, 0, BadRequest, users, groups)
  \/ /\ username = Ghost
     /\ Respond(op, actor, username, 0, NotFound, users, groups)

\* friend.friendRequests.push(user._id)
SendFriendDoc(actor) == PushRequests(NoDelta, actor)

\* a send that skips a sender who is already pending
SendFriendRequestDedup(actor, username) ==
  /\ Idle
  /\ \/ Rejected("send", actor, username)
     \/ /\ username \in Users
        /\ Includes(users[actor].friends, username)
        /\ Respond("send", actor, username, 0, Conflict, users, groups)
     \/ /\ username \in Users
        /\ ~Includes(users[actor].friends, username)
        /\ Entries(users) < MaxEntries
        /\ LET doc == IF Includes(users[username].friendRequests, actor)
                        THEN NoDelta ELSE SendFriendDoc(actor)
               s == SaveBoth(users, username, doc, actor, NoDelta)
           IN Respond("send", actor, username, 0,
                      IF s.ok THEN Ok ELSE Internal, s.store, groups)

\* POST /friends
SendFriendRequest(actor, username) ==
  /\ Idle
  /\ \/ Rejected("send", actor, username)
     \/ /\ username \in Users
        /\ Includes(users[actor].friends, username)
        /\ Respond("send", actor, username, 0, Conflict, users, groups)
     \/ /\ username \in Users
        /\ ~Includes(users[actor].friends, username)
        /\ Entries(users) < MaxEntries
        /\ LET s == SaveBoth(users, username, SendFriendDoc(actor),
                              actor, NoDelta)
           IN Respond("send", actor, username, 0,
                      IF s.ok THEN Ok ELSE Internal, s.store, groups)

\* user.friends = user.friends.filter(id => !id.equals(friend._id))
RemoveUserDoc(user, friendId) ==
  AssignFriends(NoDelta, user.friends, FilterOut(user.friends, friendId))

\* a removal that leaves the other side's friends alone
RemoveFriendDocOneSided(friend, userId) == NoDelta

\* friend.friends = friend.friends.filter(id => !id.equals(user._id))
RemoveFriendDoc(friend, userId) ==
  AssignFriends(NoDelta, friend.friends, FilterOut(friend.friends, userId))

\* DELETE /friends/:username
RemoveFriend(actor, username) ==
  /\ Idle
  /\ \/ Rejected("remove", actor, username)
     \/ /\ username \in Users
        /\ LET s == SaveBoth(users,
                              username, RemoveFriendDoc(users[username], actor),
                              actor, RemoveUserDoc(users[actor], username))
           IN Respond("remove", actor, username, 0,
                      IF s.ok THEN Ok ELSE Internal, s.store, groups)

\* user.friendRequests = user.friendRequests.filter(...);
\* user.friends.push(friend._id)
AcceptUserDoc(user, friendId) ==
  PushFriends(AssignRequests(NoDelta, user.friendRequests,
                             FilterOut(user.friendRequests, friendId)),
              friendId)

\* an accept that does not link back
AcceptFriendDocNoLink(actor) == NoDelta

\* friend.friends.push(user._id)
AcceptFriendDoc(actor) == PushFriends(NoDelta, actor)

\* PUT /friends/accept
AcceptFriendRequest(actor, username) ==
  /\ Idle
  /\ \/ Rejected("accept", actor, username)
     \/ /\ username \in Users
        /\ Entries(users) - Count(users[actor].friendRequests, username) + 2
             <= MaxEntries
        /\ LET s == SaveBoth(users,
                              username, AcceptFriendDoc(actor),
                              actor, AcceptUserDoc(users[actor], username))
           IN Respond("accept", actor, username, 0,
                      IF s.ok THEN Ok ELSE Internal, s.store, groups)

\* a reject that also unfriends, as the remove handler does
RejectUserDocUnfriend(user, friendId) ==
  AssignFriends(
    AssignRequests(NoDelta, user.friendRequests,
                   FilterOut(user.friendRequests, friendId)),
    user.friends, FilterOut(user.friends, friendId))

\* user.friendRequests = user.friendRequests.filter(...)
RejectUserDoc(user, friendId) ==
  AssignRequests(NoDelta, user.friendRequests,
                 FilterOut(user.friendRequests, friendId))

\* PUT /friends/reject
RejectFriendRequest(actor, username) ==
  /\ Idle
  /\ \/ Rejected("reject", actor, username)
     \/ /\ username \in Users
        /\ LET s == Save(users, actor, RejectUserDoc(users[actor], username),
                          FALSE)
           IN Respond("reject", actor, username, 0,
                      IF s.ok THEN Ok ELSE Internal, s.store, groups)

\* populate("friends") / populate("friendRequests") followed by
\* map(f => ({ id: f._id, username: f.username })): the IDs of stored users,
\* in the array's order, each with its username
Pairs(arr) ==
  LET stored == SelectSeq(arr, LAMBDA id : id \in Users)
  IN [i \in DOMAIN stored |-> [id |-> stored[i], username |-> stored[i]]]

\* the JSON body of GET /friends
RelationshipsOf(user) ==
  [friends |-> Pairs(user.friends),
   friendRequests |-> Pairs(user.friendRequests)]

\* a handler that answers a missing user with empty lists
ListRelationshipsNoCheck(actor) ==
  /\ Idle
  /\ IF actor \notin Users
       THEN Reply("listRelationships", actor, <<>>, Ok,
                  <<[friends |-> <<>>, friendRequests |-> <<>>]>>, messages)
       ELSE Reply("listRelationships", actor, <<>>, Ok,
                  <<RelationshipsOf(users[actor])>>, messages)

\* GET /friends.  For a missing user the client receives the 404 of the
\* first sendStatus; that line does not return, so the handler runs on into
\* the map over null and its catch, which calls sendStatus a second time
\* and writes nothing
ListRelationships(actor) ==
  /\ Idle
  /\ IF actor \notin Users
       THEN ReplyTimes("listRelationships", actor, <<>>, NotFound, 2)
       ELSE Reply("listRelationships", actor, <<>>, Ok,
                  <<RelationshipsOf(users[actor])>>, messages)

\* ----------------------------------------------------------- groups router
\* the request bodies' participants arrays
RECURSIVE SeqsUpTo(_, _)
SeqsUpTo(S, n) ==
  IF n = 0 THEN {<<>>}
  ELSE LET shorter == SeqsUpTo(S, n - 1)
       IN shorter \cup {Append(q, x) : q \in shorter, x \in S}

ParticipantLists == SeqsUpTo(UserIds, MaxMembers)

\* entries in all groups' participants arrays together
Members(gs) == SumLen([g \in DOMAIN gs |-> gs[g].participants], DOMAIN gs)

GroupNames == {"team", Missing}

\* Group.findById(groupId): the stored group, or null
GroupExists(g) == g \in DOMAIN groups

\* an authorization that only looks for the group
NotAuthorizedGroupOnly(actor, g) == ~GroupExists(g)

\* !group || !group.participants.includes(req.userId)
NotAuthorized(actor, g) ==
  IF ~GroupExists(g) THEN TRUE
  ELSE ~Includes(groups[g].participants, actor)

\* an includes() that never matches (an ObjectId compared by identity)
IsParticipantNever(g, userId) == FALSE

\* group.participants.includes(userId)
IsParticipant(g, userId) == Includes(groups[g].participants, userId)

\* update { $push: { groups: g } } of the user with _id userId, if any
PushGroup(store, userId, g) ==
  IF userId \in Users
    THEN [store EXCEPT ![userId].groups = Append(@, g)]
    ELSE store

\* an update whose filter matches no user
PullGroupNone(store, userId, g) == store

\* update { $pull: { groups: g } } of the user with _id userId, if any
PullGroup(store, userId, g) ==
  IF userId \in Users
    THEN [store EXCEPT ![userId].groups = FilterOut(@, g)]
    ELSE store

\* User.updateMany({ _id: { $in: participants } }, { $push: { groups: g } })
PushGroupMany(store, participants, g) ==
  [u \in Users |->
     IF Includes(participants, u)
       THEN [store[u] EXCEPT !.groups = Append(@, g)]
       ELSE store[u]]

\* POST /groups
CreateGroup(actor, name, participants) ==
  /\ Idle
  /\ Len(groups) < MaxGroups
  /\ Members(groups) + Len(participants) <= MaxMembers
  /\ LET g == Len(groups) + 1
     IN \/ /\ name = Missing
           /\ Respond("createGroup", actor, Missing, g, Internal, users, groups)
        \/ /\ name # Missing
           /\ Respond("createGroup", actor, Missing, g, Created,
                      PushGroupMany(users, participants, g),
                      Append(groups, [participants |-> participants,
                                      messages |-> <<>>]))

\* POST /groups/:groupId/users
AddGroupMember(actor, g, userId) ==
  /\ Idle
  /\ \/ /\ NotAuthorized(actor, g)
        /\ Respond("addMember", actor, userId, g, Forbidden, users, groups)
     \/ /\ ~NotAuthorized(actor, g)
        /\ ~IsParticipant(g, userId)
        /\ Members(groups) < MaxMembers
        /\ Respond("addMember", actor, userId, g, Ok,
                   PushGroup(users, userId, g),
                   [groups EXCEPT ![g].participants = Append(@, userId)])
     \/ /\ ~NotAuthorized(actor, g)
        /\ IsParticipant(g, userId)
        /\ Respond("addMember", actor, userId, g, BadRequest, users, groups)

\* DELETE /groups/:groupId/users/:userId
RemoveGroupMember(actor, g, userId) ==
  /\ Idle
  /\ \/ /\ NotAuthorized(actor, g)
        /\ Respond("removeMember", actor, userId, g, Forbidden, users, groups)
     \/ /\ ~NotAuthorized(actor, g)
        /\ IsParticipant(g, userId)
        /\ Respond("removeMember", actor, userId, g, Ok,
                   PullGroup(users, userId, g),
                   [groups EXCEPT ![g].participants = FilterOut(@, userId)])
     \/ /\ ~NotAuthorized(actor, g)
        /\ ~IsParticipant(g, userId)
        /\ Respond("removeMember", actor, userId, g, BadRequest, users, groups)

\* the friends router.  Idle stands ahead of the quantifiers as well, so that
\* no request is drawn while a response is outstanding.
Next ==
  \/ /\ Idle
     /\ \E actor \in Users, username \in Usernames :
          SendFriendRequest(actor, username)
  \/ /\ Idle
     /\ \E actor \in Users, username \in Usernames :
          RemoveFriend(actor, username)
  \/ /\ Idle
     /\ \E actor \in Users, username \in Usernames :
          AcceptFriendRequest(actor, username)
  \/ /\ Idle
     /\ \E actor \in Users, username \in Usernames :
          RejectFriendRequest(actor, username)
  \/ /\ Idle
     /\ \E actor \in UserIds : ListRelationships(actor)
  \/ NextRequest

Spec == Init /\ [][Next]_vars

\* the groups router alone
GroupNext ==
  \/ /\ Idle
     /\ \E actor \in Users, name \in GroupNames,
           participants \in ParticipantLists :
          CreateGroup(actor, name, participants)
  \/ /\ Idle
     /\ \E actor \in Users, g \in GroupIds, userId \in UserIds :
          AddGroupMember(actor, g, userId)
  \/ /\ Idle
     /\ \E actor \in Users, g \in GroupIds, userId \in UserIds :
          RemoveGroupMember(actor, g, userId)
  \/ NextRequest

GroupSpec == Init /\ [][GroupNext]_vars

\* ------------------------------------------------------------ chats router
\* ObjectIds are unique over all collections: the groups take 1, 2, ..., the
\* chats -1, -2, ..., and 0 stands for an absent ID
ChatId(i) == 0 - i

ChatIndex(id) == 0 - id

\* Chat.findById(chatId): the stored chat, or null
ChatExists(id) == ChatIndex(id) \in DOMAIN chats

\* the request bodies' participants arrays of POST /chats
ChatLists == SeqsUpTo(Users, MaxChatMembers)

\* entries in all chats' participants arrays together
ChatMembers(cs) == SumLen([i \in DOMAIN cs |-> cs[i].participants], DOMAIN cs)

\* the chats and messages routers answer status and leave the chats, groups,
\* messages and received events as given; they write no user record and
\* touch no room
Answer(op, actor, body, status, newChats, newGroups, newMessages, newInbox) ==
  /\ chats' = newChats
  /\ groups' = newGroups
  /\ messages' = newMessages
  /\ inbox' = newInbox
  /\ resp' = [op |-> op, actor |-> actor, target |-> Missing, group |-> 0,
              body |-> body, status |-> status, payload |-> <<>>,
              sends |-> 1]
  /\ before' = Snapshot
  /\ UNCHANGED <<users, rooms, tasks>>

\* a message document of the given store with its sender populated
Populated(store, m) ==
  [id |-> m,
   sender |-> [id |-> store[m].sender, username |-> store[m].sender],
   content |-> store[m].content, timestamp |-> store[m].timestamp,
   isRead |-> store[m].isRead, chat |-> store[m].chat,
   group |-> store[m].group]

\* populate({ path: 'messages', populate: { path: 'sender' } }): the stored
\* documents of the IDs, in the array's order
PopulateMessages(ids) == [i \in DOMAIN ids |-> Populated(messages, ids[i])]

\* a handler that creates the chat whoever asks
CreateChatAnyone(actor, participants) ==
  /\ Idle
  /\ Len(chats) < MaxChats
  /\ ChatMembers(chats) + Len(participants) <= MaxChatMembers
  /\ Answer("createChat", actor, participants, Created,
            Append(chats, [participants |-> participants,
                           messages |-> <<>>]),
            groups, messages, inbox)

\* POST /chats
CreateChat(actor, participants) ==
  /\ Idle
  /\ Len(chats) < MaxChats
  /\ ChatMembers(chats) + Len(participants) <= MaxChatMembers
  /\ \/ /\ ~Includes(participants, actor)
        /\ Answer("createChat", actor, participants, BadRequest,
                  chats, groups, messages, inbox)
     \/ /\ Includes(participants, actor)
        /\ Answer("createChat", actor, participants, Created,
                  Append(chats, [participants |-> participants,
                                 messages |-> <<>>]),
                  groups, messages, inbox)

\* a JSON request body with no fields
EmptyBody == <<>>

\* POST /chats with any JSON body.  Without a participants field,
\* participants.includes throws ahead of the try block: the handler sends
\* nothing, and the request is either never answered or answered 500 by the
\* framework
CreateChatRequest(actor, body) ==
  IF "participants" \in DOMAIN body
    THEN CreateChat(actor, body.participants)
    ELSE /\ Idle
         /\ \E status \in {0, Internal} :
              ReplyTimes("createChat", actor, <<>>, status, 0)

\* !chat || !chat.participants.includes(req.userId)
NotInChat(actor, id) ==
  IF ~ChatExists(id) THEN TRUE
  ELSE ~Includes(chats[ChatIndex(id)].participants, actor)

\* GET /chats/:chatId/messages
ListMessages(actor, id) ==
  /\ Idle
  /\ IF NotInChat(actor, id)
       THEN Reply("listMessages", actor, <<id>>, Forbidden, <<>>, messages)
       ELSE Reply("listMessages", actor, <<id>>, Ok,
                  PopulateMessages(chats[ChatIndex(id)].messages), messages)

\* Chat.findOne({ participants: { $all: [a, b] },
\*                $expr: { $eq: [{ $size: "$participants" }, 2] } }):
\* the chats the query matches
FindDirectChats(a, b) ==
  {i \in DOMAIN chats :
     /\ Len(chats[i].participants) = 2
     /\ Includes(chats[i].participants, a)
     /\ Includes(chats[i].participants, b)}

\* --------------------------------------------------------- messages router
\* the request bodies' content
Contents == {"hi", Missing}

\* a $push on the wrong path of the chat
PushChatMessageWrongPath(cs, id, m) ==
  IF ChatIndex(id) \in DOMAIN cs
    THEN [cs EXCEPT ![ChatIndex(id)].participants = Append(@, m)]
    ELSE cs

\* Chat.findByIdAndUpdate(chat, { $push: { messages: m } }): no chat with
\* that _id, no update
PushChatMessage(cs, id, m) ==
  IF ChatIndex(id) \in DOMAIN cs
    THEN [cs EXCEPT ![ChatIndex(id)].messages = Append(@, m)]
    ELSE cs

\* a $push with $position 0
PushGroupMessageFront(gs, id, m) ==
  IF id \in DOMAIN gs
    THEN [gs EXCEPT ![id].messages = <<m>> \o @]
    ELSE gs

\* Group.findByIdAndUpdate(group, { $push: { messages: m } })
PushGroupMessage(gs, id, m) ==
  IF id \in DOMAIN gs
    THEN [gs EXCEPT ![id].messages = Append(@, m)]
    ELSE gs

\* the room of io.to(chat || group)
Channel(chat, group) == IF chat # Unset THEN chat ELSE group

\* an emit that reaches every connected socket
EmitToAll(box, channel, event) ==
  [s \in Sockets |-> Append(box[s], event)]

\* io.to(channel).emit("newMessage", event): the event reaches the sockets
\* that are in the room
Emit(box, channel, event) ==
  [s \in Sockets |->
     IF channel \in rooms[s] THEN Append(box[s], event) ELSE box[s]]

\* Date.now(): a reading later than every reading taken so far
Now ==
  LET read == {0} \cup {messages[m].timestamp : m \in DOMAIN messages}
                  \cup {tasks[t].timestamp : t \in Tasks}
  IN 1 + CHOOSE x \in read : \A y \in read : y <= x

\* POST /messages
PostMessage(actor, content, chat, group) ==
  /\ Idle
  /\ Len(messages) < MaxMessages
  /\ LET m == Len(messages) + 1
         body == [content |-> content, chat |-> chat, group |-> group]
         message == [sender |-> actor, content |-> content, chat |-> chat,
                     group |-> group, timestamp |-> Now, isRead |-> FALSE]
         event == [message |-> m, sender |-> actor, content |-> content,
                   chat |-> chat, group |-> group]
     IN \/ /\ content = Missing
           /\ Answer("postMessage", actor, body, Internal,
                     chats, groups, messages, inbox)
        \/ /\ content # Missing
           /\ Answer("postMessage", actor, body, Created,
                     IF chat # Unset
                       THEN PushChatMessage(chats, chat, m) ELSE chats,
                     IF chat = Unset /\ group # Unset
                       THEN PushGroupMessage(groups, group, m) ELSE groups,
                     Append(messages, message),
                     Emit(inbox, Channel(chat, group), event))

\* GET /messages/:messageId
GetMessage(actor, m) ==
  /\ Idle
  /\ Reply("getMessage", actor, <<m>>, Ok,
           IF m \in DOMAIN messages THEN <<Populated(messages, m)>> ELSE <<>>,
           messages)

\* an update that sets isRead on every stored message
SetReadStatusAll(actor, m, isRead) ==
  /\ Idle
  /\ LET updated == IF m \in DOMAIN messages
                      THEN [k \in DOMAIN messages |->
                              [messages[k] EXCEPT !.isRead = isRead]]
                      ELSE messages
     IN Reply("setReadStatus", actor, <<m, isRead>>, Ok,
              IF m \in DOMAIN messages THEN <<updated[m]>> ELSE <<>>,
              updated)

\* PUT /messages/:messageId
SetReadStatus(actor, m, isRead) ==
  /\ Idle
  /\ LET updated == IF m \in DOMAIN messages
                      THEN [messages EXCEPT ![m].isRead = isRead]
                      ELSE messages
     IN Reply("setReadStatus", actor, <<m, isRead>>, Ok,
              IF m \in DOMAIN messages THEN <<updated[m]>> ELSE <<>>,
              updated)

\* the message IDs a client may name: those of the stored messages and one
\* of no message
MessageIdInputs == DOMAIN messages \cup {GhostId}

\* the group IDs a client may name in a message
GroupIdInputs == DOMAIN groups \cup {GhostId}

\* ---------------------------------------------------------- socket.io rooms
\* a socket event is handled and leaves the rooms as given; it has no
\* response
Handled(op, s, channel, newRooms) ==
  /\ rooms' = newRooms
  /\ resp' = [op |-> op, actor |-> s, target |-> Missing, group |-> 0,
              body |-> <<channel>>, status |-> 0, payload |-> <<>>,
              sends |-> 0]
  /\ before' = Snapshot
  /\ UNCHANGED <<users, groups, chats, messages, inbox, tasks>>

\* a join that takes a socket already in the room out of it
JoinChatToggle(s, channel) ==
  /\ Idle
  /\ Handled("joinChat", s, channel,
             [rooms EXCEPT ![s] = IF channel \in @ THEN @ \ {channel}
                                                  ELSE @ \cup {channel}])

\* socket.on("joinChat", (chatId) => socket.join(chatId))
JoinChat(s, channel) ==
  /\ Idle
  /\ Handled("joinChat", s, channel, [rooms EXCEPT ![s] = @ \cup {channel}])

\* a leave that takes the socket out of every room
LeaveChatAll(s, channel) ==
  /\ Idle
  /\ Handled("leaveChat", s, channel, [rooms EXCEPT ![s] = {}])

\* socket.on("leaveChat", (chatId) => socket.leave(chatId))
LeaveChat(s, channel) ==
  /\ Idle
  /\ Handled("leaveChat", s, channel, [rooms EXCEPT ![s] = @ \ {channel}])

\* ------------------------------------------------------------- the routers
\* the chat IDs a client may name: those of the stored chats and one of no
\* chat
ChatIdInputs == {ChatId(i) : i \in DOMAIN chats} \cup {GhostId}

ChatNext ==
  \/ /\ Idle
     /\ \E actor \in Users, participants \in ChatLists :
          CreateChat(actor, participants)
  \/ /\ Idle
     /\ \E actor \in Users, id \in ChatIdInputs : ListMessages(actor, id)
  \/ NextRequest

ChatSpec == Init /\ [][ChatNext]_vars

\* the messages router, with the conversations the messages go to: one
\* direct chat and one group, created by their first participant
MsgNext ==
  \/ /\ Idle
     /\ chats = <<>>
     /\ CreateChat("alice", <<"alice", "bob">>)
  \/ /\ Idle
     /\ groups = <<>>
     /\ CreateGroup("alice", "team", <<"alice", "carol">>)
  \/ /\ Idle
     /\ \E actor \in Users, content \in Contents,
           chat \in ChatIdInputs \cup {Unset},
           group \in GroupIdInputs \cup {Unset} :
          PostMessage(actor, content, chat, group)
  \/ /\ Idle
     /\ \E actor \in Users, id \in ChatIdInputs : ListMessages(actor, id)
  \/ /\ Idle
     /\ \E actor \in Users, m \in MessageIdInputs : GetMessage(actor, m)
  \/ NextRequest

MsgSpec == Init /\ [][MsgNext]_vars

\* every operation on a conversation: alice creates direct chats and a
\* group and posts to them
ConvNext ==
  \/ /\ Idle
     /\ CreateChat("alice", <<"alice", "bob">>)
  \/ /\ Idle
     /\ groups = <<>>
     /\ CreateGroup("alice", "team", <<"alice", "carol">>)
  \/ /\ Idle
     /\ \E chat \in ChatIdInputs \ {GhostId} :
          PostMessage("alice", "hi", chat, Unset)
  \/ /\ Idle
     /\ \E group \in GroupIdInputs \ {GhostId} :
          PostMessage("alice", "hi", Unset, group)
  \/ /\ Idle
     /\ \E actor \in Users, m \in MessageIdInputs, isRead \in BOOLEAN :
          SetReadStatus(actor, m, isRead)
  \/ /\ Idle
     /\ \E actor \in Users, id \in ChatIdInputs : ListMessages(actor, id)
  \/ /\ Idle
     /\ \E actor \in Users, m \in MessageIdInputs : GetMessage(actor, m)
  \/ /\ Idle
     /\ \E actor \in Users, g \in GroupIds, userId \in UserIds :
          AddGroupMember(actor, g, userId)
  \/ /\ Idle
     /\ \E actor \in Users, g \in GroupIds, userId \in UserIds :
          RemoveGroupMember(actor, g, userId)
  \/ NextRequest

ConvSpec == Init /\ [][ConvNext]_vars

\* the rooms a socket may name: the IDs of the stored chats and groups
ChannelInputs == (ChatIdInputs \cup GroupIdInputs) \ {GhostId}

\* the sockets, with the conversations they listen to: one direct chat and
\* one group, to which the users post
RtNext ==
  \/ /\ Idle
     /\ chats = <<>>
     /\ CreateChat("alice", <<"alice", "bob">>)
  \/ /\ Idle
     /\ groups = <<>>
     /\ CreateGroup("alice", "team", <<"alice", "carol">>)
  \/ /\ Idle
     /\ \E s \in Sockets, channel \in ChannelInputs : JoinChat(s, channel)
  \/ /\ Idle
     /\ \E s \in Sockets, channel \in ChannelInputs : LeaveChat(s, channel)
  \/ /\ Idle
     /\ \E actor \in Users, chat \in ChatIdInputs \ {GhostId} :
          PostMessage(actor, "hi", chat, Unset)
  \/ /\ Idle
     /\ \E actor \in Users, group \in GroupIdInputs \ {GhostId} :
          PostMessage(actor, "hi", Unset, group)
  \/ NextRequest

RtSpec == Init /\ [][RtNext]_vars

\* ------------------------------------------- POST /messages, await by await
\* the readings of Date.now() that are told apart
MaxClock == MaxMessages + 2

\* the requests in flight that have a message document
InFlight == {t \in Tasks : tasks[t].pc # "idle"}

\* a step of a handler that sends no response yet
Proceed(t, task, newChats, newGroups, newMessages) ==
  /\ tasks' = [tasks EXCEPT ![t] = task]
  /\ chats' = newChats
  /\ groups' = newGroups
  /\ messages' = newMessages
  /\ UNCHANGED <<users, rooms, inbox, resp, before>>

\* the handler's response: res.status(status).json(...)
Finish(t, status, newInbox) ==
  /\ tasks' = [tasks EXCEPT ![t] = NoTask]
  /\ inbox' = newInbox
  /\ resp' = [op |-> "postMessage", actor |-> tasks[t].actor,
              target |-> Missing, group |-> 0,
              body |-> [content |-> tasks[t].content, chat |-> tasks[t].chat,
                        group |-> tasks[t].group],
              status |-> status, payload |-> <<>>, sends |-> 1]
  /\ before' = Snapshot
  /\ UNCHANGED <<users, groups, chats, messages, rooms>>

\* the request arrives: new Message({ sender, content, chat, group }) takes
\* its timestamp, and message.save() is called
ReceivePost(t, actor, content, chat, group) ==
  /\ Idle
  /\ tasks[t].pc = "idle"
  /\ Len(messages) + Cardinality(InFlight) < MaxMessages
  /\ Now <= MaxClock
  /\ Proceed(t, [pc |-> "constructed", actor |-> actor, content |-> content,
                 chat |-> chat, group |-> group, timestamp |-> Now,
                 id |-> Unset],
             chats, groups, messages)

\* await message.save() resolves: the document is stored.  With neither
\* chat nor group the handler goes on to populate without a further write
SaveMessage(t) ==
  /\ Idle
  /\ tasks[t].pc = "constructed"
  /\ tasks[t].content # Missing
  /\ LET task == tasks[t]
         m == Len(messages) + 1
         message == [sender |-> task.actor, content |-> task.content,
                     chat |-> task.chat, group |-> task.group,
                     timestamp |-> task.timestamp, isRead |-> FALSE]
     IN Proceed(t, [task EXCEPT !.id = m,
                                !.pc = IF task.chat = Unset
                                          /\ task.group = Unset
                                         THEN "pushed" ELSE "saved"],
                chats, groups, Append(messages, message))

\* await Chat.findByIdAndUpdate / Group.findByIdAndUpdate resolves
AppendMessage(t) ==
  /\ Idle
  /\ tasks[t].pc = "saved"
  /\ LET task == tasks[t]
     IN Proceed(t, [task EXCEPT !.pc = "pushed"],
                IF task.chat # Unset
                  THEN PushChatMessage(chats, task.chat, task.id) ELSE chats,
                IF task.chat = Unset /\ task.group # Unset
                  THEN PushGroupMessage(groups, task.group, task.id)
                  ELSE groups,
                messages)

\* await message.populate(...) resolves: the emit and the 201
EmitMessage(t) ==
  /\ Idle
  /\ tasks[t].pc = "pushed"
  /\ LET task == tasks[t]
         event == [message |-> task.id, sender |-> task.actor,
                   content |-> task.content, chat |-> task.chat,
                   group |-> task.group]
     IN Finish(t, Created, Emit(inbox, Channel(task.chat, task.group), event))

\* the awaited promise rejects (validation of a missing content, or the
\* store failing the save, the $push or the populate): the catch answers 500
FailPost(t) ==
  /\ Idle
  /\ tasks[t].pc # "idle"
  /\ Finish(t, Internal, inbox)

\* two clients of alice posting to the direct chat, to a chat that does not
\* exist and to no conversation, while one socket listens and the chat's
\* messages are read
PostNext ==
  \/ /\ Idle
     /\ chats = <<>>
     /\ CreateChat("alice", <<"alice", "bob">>)
  \/ /\ Idle
     /\ \E channel \in ChatIdInputs : JoinChat("s1", channel)
  \/ /\ Idle
     /\ \E t \in Tasks, content \in Contents,
           chat \in ChatIdInputs \cup {Unset} :
          ReceivePost(t, "alice", content, chat, Unset)
  \/ /\ Idle
     /\ \E t \in Tasks : SaveMessage(t)
  \/ /\ Idle
     /\ \E t \in Tasks : AppendMessage(t)
  \/ /\ Idle
     /\ \E t \in Tasks : EmitMessage(t)
  \/ /\ Idle
     /\ \E t \in Tasks : FailPost(t)
  \/ /\ Idle
     /\ \E id \in ChatIdInputs : ListMessages("alice", id)
  \/ NextRequest

PostSpec == Init /\ [][PostNext]_vars

\* requests whose handlers leave the usual path: a chat created from a body
\* with or without participants, and relationships listed by a user whose
\* record is missing
HandlerNext ==
  \/ /\ Idle
     /\ \E actor \in Users, participants \in ChatLists :
          CreateChatRequest(actor, [participants |-> participants])
  \/ /\ Idle
     /\ \E actor \in Users : CreateChatRequest(actor, EmptyBody)
  \/ /\ Idle
     /\ SendFriendRequest("alice", "bob")
  \/ /\ Idle
     /\ \E actor \in UserIds : ListRelationships(actor)
  \/ NextRequest

HandlerSpec == Init /\ [][HandlerNext]_vars

\* ------------------------------------ POST /groups/:groupId/users, by await
\* a handler of the request at one of its awaits, or with its response sent
AddTask(pc, actor, g, userId, status) ==
  [pc |-> pc, actor |-> actor, group |-> g, userId |-> userId,
   status |-> status]

\* the handlers that have called group.save() and not yet been answered
Adding == {t \in Tasks : tasks[t].pc \in {"saving", "updating"}}

\* the handler's response; the slot keeps it until the next request
AnswerAdd(t, status, newUsers) ==
  /\ tasks' = [tasks EXCEPT ![t] = AddTask("done", tasks[t].actor,
                                            tasks[t].group, tasks[t].userId,
                                            status)]
  /\ users' = newUsers
  /\ resp' = [op |-> "addMember", actor |-> tasks[t].actor,
              target |-> tasks[t].userId, group |-> tasks[t].group,
              body |-> <<>>, status |-> status, payload |-> <<>>,
              sends |-> 1]
  /\ before' = Snapshot
  /\ UNCHANGED <<groups, chats, messages, rooms, inbox>>

\* the request arrives and Group.findById is awaited
ReceiveAdd(t, actor, g, userId) ==
  /\ Idle
  /\ tasks[t].pc \in {"idle", "done"}
  /\ tasks' = [tasks EXCEPT ![t] = AddTask("finding", actor, g, userId, 0)]
  /\ UNCHANGED <<users, groups, chats, messages, rooms, inbox, resp, before>>

\* await Group.findById resolves: the two includes() tests on the document
\* as loaded; a new participant is pushed and group.save() awaited
FindGroup(t) ==
  /\ Idle
  /\ tasks[t].pc = "finding"
  /\ LET task == tasks[t]
     IN IF NotAuthorized(task.actor, task.group)
          THEN AnswerAdd(t, Forbidden, users)
        ELSE IF IsParticipant(task.group, task.userId)
          THEN AnswerAdd(t, BadRequest, users)
        ELSE /\ Members(groups) + Cardinality(Adding) < MaxMembers
             /\ tasks' = [tasks EXCEPT ![t].pc = "saving"]
             /\ UNCHANGED <<users, groups, chats, messages, rooms, inbox,
                            resp, before>>

\* await group.save() resolves: the $push of the new participant onto the
\* stored array; User.findByIdAndUpdate is awaited
SaveGroup(t) ==
  /\ Idle
  /\ tasks[t].pc = "saving"
  /\ tasks' = [tasks EXCEPT ![t].pc = "updating"]
  /\ groups' = [groups EXCEPT
                  ![tasks[t].group].participants = Append(@, tasks[t].userId)]
  /\ UNCHANGED <<users, chats, messages, rooms, inbox, resp, before>>

\* await User.findByIdAndUpdate resolves: the 200
UpdateUser(t) ==
  /\ Idle
  /\ tasks[t].pc = "updating"
  /\ AnswerAdd(t, Ok, PushGroup(users, tasks[t].userId, tasks[t].group))

\* alice, the participant of a group, and bob adding users to it in
\* overlapping requests
AddNext ==
  \/ /\ Idle
     /\ groups = <<>>
     /\ CreateGroup("alice", "team", <<"alice">>)
  \/ /\ Idle
     /\ groups # <<>>
     /\ \E t \in Tasks, actor \in {"alice", "bob"}, userId \in UserIds :
          ReceiveAdd(t, actor, 1, userId)
  \/ /\ Idle
     /\ \E t \in Tasks : FindGroup(t)
  \/ /\ Idle
     /\ \E t \in Tasks : SaveGroup(t)
  \/ /\ Idle
     /\ \E t \in Tasks : UpdateUser(t)
  \/ NextRequest

AddSpec == Init /\ [][AddNext]_vars

\* ------------------------------------- the friends router, a save failing
\* which of a handler's saves the store fails, if any
Faults == {"none", "first", "second"}

\* doc.save() against a store that may fail the update it is sent; an
\* unmodified document sends nothing and cannot fail
SaveOrFail(store, id, delta, stale, fails) ==
  IF IsModified(delta) /\ fails
    THEN [ok |-> FALSE, wrote |-> FALSE, store |-> store]
    ELSE Save(store, id, delta, stale)

\* two saves in the other order: the actor's document first
SaveBothUserFirst(store, friendId, friendDelta, userId, userDelta, fault) ==
  LET s1 == SaveOrFail(store, userId, userDelta, FALSE, fault = "first")
      s2 == SaveOrFail(s1.store, friendId, friendDelta,
                       userId = friendId /\ s1.wrote, fault = "second")
  IN IF ~s1.ok THEN [ok |-> FALSE, store |-> s1.store]
     ELSE [ok |-> s2.ok, store |-> s2.store]

\* await friend.save(); await user.save() against such a store: the first
\* save that throws ends the try block
SaveBothOrFail(store, friendId, friendDelta, userId, userDelta, fault) ==
  LET s1 == SaveOrFail(store, friendId, friendDelta, FALSE, fault = "first")
      s2 == SaveOrFail(s1.store, userId, userDelta,
                       userId = friendId /\ s1.wrote, fault = "second")
  IN IF ~s1.ok THEN [ok |-> FALSE, store |-> s1.store]
     ELSE [ok |-> s2.ok, store |-> s2.store]

\* the handler answers status; the response records which save failed
RespondUnder(op, actor, target, fault, status, newUsers) ==
  /\ users' = newUsers
  /\ resp' = [op |-> op, actor |-> actor, target |-> target, group |-> 0,
              body |-> <<fault>>, status |-> status, payload |-> <<>>,
              sends |-> 1]
  /\ before' = Snapshot
  /\ UNCHANGED <<groups, chats, messages, rooms, inbox, tasks>>

\* PUT /friends/accept for a stored target
AcceptOrFail(actor, username, fault) ==
  /\ Idle
  /\ Entries(users) - Count(users[actor].friendRequests, username) + 2
       <= MaxEntries
  /\ LET s == SaveBothOrFail(users,
                             username, AcceptFriendDoc(actor),
                             actor, AcceptUserDoc(users[actor], username),
                             fault)
     IN RespondUnder("accept", actor, username, fault,
                     IF s.ok THEN Ok ELSE Internal, s.store)

\* DELETE /friends/:username for a stored target
RemoveOrFail(actor, username, fault) ==
  /\ Idle
  /\ LET s == SaveBothOrFail(users,
                             username, RemoveFriendDoc(users[username], actor),
                             actor, RemoveUserDoc(users[actor], username),
                             fault)
     IN RespondUnder("remove", actor, username, fault,
                     IF s.ok THEN Ok ELSE Internal, s.store)

\* the friends router against a store that may fail a save
FaultNext ==
  \/ /\ Idle
     /\ \E actor \in Users : \E username \in Users \ {actor} :
          SendFriendRequest(actor, username)
  \/ /\ Idle
     /\ \E actor \in Users, username \in Users, fault \in Faults :
          AcceptOrFail(actor, username, fault)
  \/ /\ Idle
     /\ \E actor \in Users, username \in Users, fault \in Faults :
          RemoveOrFail(actor, username, fault)
  \/ NextRequest

FaultSpec == Init /\ [][FaultNext]_vars

\* -------------------------------------------- the friends router, by await
\* a user document before it is loaded
NoUser == [friends |-> <<>>, friendRequests |-> <<>>, groups |-> <<>>]

\* a handler of the friends router at one of its awaits, or with its
\* response sent: the user document as loaded, the changes made to its two
\* documents in memory, and whether the records were written since the
\* documents were loaded
FriendTask(pc, op, actor, username, status) ==
  [pc |-> pc, op |-> op, actor |-> actor, username |-> username,
   loaded |-> NoUser, user |-> NoDelta, friend |-> NoDelta,
   staleUser |-> FALSE, staleFriend |-> FALSE, status |-> status]

\* the handlers that hold the user document / the friend document
HoldsUser(task) == task.pc \in {"findingFriend", "savingFriend", "savingUser"}

HoldsFriend(task) == task.pc \in {"savingFriend", "savingUser"}

\* the entries the handlers in flight may still add to the arrays
Pending(t) ==
  IF tasks[t].pc \in {"idle", "done"} THEN <<>>
  ELSE IF tasks[t].op = "send" THEN <<1>>
  ELSE IF tasks[t].op = "accept" THEN <<1, 2>>
  ELSE <<>>

\* the handler's response; the slot keeps it until the next request
AnswerFriend(t, status, newUsers, newTasks) ==
  /\ tasks' = [newTasks EXCEPT ![t] = FriendTask("done", tasks[t].op,
                                                   tasks[t].actor,
                                                   tasks[t].username, status)]
  /\ users' = newUsers
  /\ resp' = [op |-> tasks[t].op, actor |-> tasks[t].actor,
              target |-> tasks[t].username, group |-> 0,
              body |-> <<t>>, status |-> status, payload |-> <<>>,
              sends |-> 1]
  /\ before' = Snapshot
  /\ UNCHANGED <<groups, chats, messages, rooms, inbox>>

\* a step of a handler that sends no response yet
Await(newUsers, newTasks) ==
  /\ tasks' = newTasks
  /\ users' = newUsers
  /\ UNCHANGED <<groups, chats, messages, rooms, inbox, resp, before>>

\* a write of record id has incremented its __v: every other document
\* loaded from that record is stale now
Written(ts, t, doc, id) ==
  [x \in Tasks |->
     [ts[x] EXCEPT
        !.staleUser = @ \/ (/\ HoldsUser(ts[x])
                            /\ ts[x].actor = id
                            /\ ~(x = t /\ doc = "user")),
        !.staleFriend = @ \/ (/\ HoldsFriend(ts[x])
                              /\ ts[x].username = id
                              /\ ~(x = t /\ doc = "friend"))]]

\* the request arrives with a username, and await User.findById(req.userId)
\* resolves
FindUser(t, op, actor, username) ==
  /\ Idle
  /\ tasks[t].pc \in {"idle", "done"}
  /\ LET started == [tasks EXCEPT
                       ![t] = FriendTask("findingFriend", op, actor,
                                         username, 0)]
     IN /\ actor # username
        /\ Entries(users)
             + SumLen([x \in Tasks |-> IF x = t THEN <<>> ELSE Pending(x)],
                      Tasks)
             + (IF op = "send" THEN 1 ELSE IF op = "accept" THEN 2 ELSE 0)
             <= MaxEntries
        /\ Await(users, [started EXCEPT ![t].loaded = users[actor]])

\* await User.findOne({ username }) resolves: the tests and the changes to
\* the two documents, made on the arrays as this handler loaded them; then
\* the first save is awaited
FindFriend(t) ==
  /\ Idle
  /\ tasks[t].pc = "findingFriend"
  /\ LET task == tasks[t]
         user == task.loaded
         friend == users[task.username]
     IN IF task.op = "send" /\ Includes(user.friends, task.username)
          THEN AnswerFriend(t, Conflict, users, tasks)
        ELSE Await(users,
               [tasks EXCEPT
                  ![t].loaded = NoUser,
                  ![t].pc = IF task.op = "reject" THEN "savingUser"
                            ELSE "savingFriend",
                  ![t].friend =
                     IF task.op = "send" THEN SendFriendDoc(task.actor)
                     ELSE IF task.op = "accept"
                       THEN AcceptFriendDoc(task.actor)
                     ELSE IF task.op = "remove"
                       THEN RemoveFriendDoc(friend, task.actor)
                     ELSE NoDelta,
                  ![t].user =
                     IF task.op = "accept"
                       THEN AcceptUserDoc(user, task.username)
                     ELSE IF task.op = "remove"
                       THEN RemoveUserDoc(user, task.username)
                     ELSE IF task.op = "reject"
                       THEN RejectUserDoc(user, task.username)
                     ELSE NoDelta])

\* await friend.save() resolves: the update is applied, or save() throws
\* VersionError and the catch answers 500; then user.save() is awaited
SaveFriend(t) ==
  /\ Idle
  /\ tasks[t].pc = "savingFriend"
  /\ LET task == tasks[t]
         s == Save(users, task.username, task.friend, task.staleFriend)
         written == IF s.wrote
                      THEN Written(tasks, t, "friend", task.username)
                      ELSE tasks
     IN IF ~s.ok THEN AnswerFriend(t, Internal, users, tasks)
        ELSE Await(s.store, [written EXCEPT ![t].pc = "savingUser",
                                            ![t].friend = NoDelta])

\* await user.save() resolves: the 200, or the 500 of the catch
SaveUser(t) ==
  /\ Idle
  /\ tasks[t].pc = "savingUser"
  /\ LET task == tasks[t]
         s == Save(users, task.actor, task.user, task.staleUser)
         written == IF s.wrote
                      THEN Written(tasks, t, "user", task.actor)
                      ELSE tasks
     IN AnswerFriend(t, IF s.ok THEN Ok ELSE Internal, s.store, written)

\* alice and bob accepting and removing each other in overlapping requests
RaceNext ==
  \/ /\ Idle
     /\ \E t \in Tasks, op \in {"accept", "remove"},
           actor \in {"alice", "bob"}, username \in {"alice", "bob"} :
          FindUser(t, op, actor, username)
  \/ /\ Idle
     /\ \E t \in Tasks : FindFriend(t)
  \/ /\ Idle
     /\ \E t \in Tasks : SaveFriend(t)
  \/ /\ Idle
     /\ \E t \in Tasks : SaveUser(t)
  \/ NextRequest

RaceSpec == Init /\ [][RaceNext]_vars

\* bob and carol sending alice requests while alice accepts or rejects bob
LostNext ==
  \/ /\ Idle
     /\ \E t \in Tasks, actor \in {"bob", "carol"} :
          FindUser(t, "send", actor, "alice")
  \/ /\ Idle
     /\ \E t \in Tasks, op \in {"accept", "reject"} :
          FindUser(t, op, "alice", "bob")
  \/ /\ Idle
     /\ \E t \in Tasks : FindFriend(t)
  \/ /\ Idle
     /\ \E t \in Tasks : SaveFriend(t)
  \/ /\ Idle
     /\ \E t \in Tasks : SaveUser(t)
  \/ NextRequest

LostSpec == Init /\ [][LostNext]_vars

\* ================================================================== claims
FriendOps == {"send", "remove", "accept", "reject"}

\* the last request was op and was answered with status
Answered(op, status) == resp.op = op /\ resp.status = status

\* the record of user u is as it was when the last request arrived
SameRecord(u) == users[u] = before.users[u]

\* the entries of arr other than x, in their order
RECURSIVE Without(_, _)
Without(arr, x) ==
  IF arr = <<>> THEN <<>>
  ELSE IF Head(arr) = x THEN Without(Tail(arr), x)
  ELSE <<Head(arr)>> \o Without(Tail(arr), x)

FriendshipSymmetric ==
  \A a \in Users, b \in Users :
    Includes(users[a].friends, b) <=> Includes(users[b].friends, a)

\* a friendship was removed while another one of the same user stays
FriendshipSymmetricWitness ==
  /\ Answered("remove", Ok)
  /\ resp.actor # resp.target
  /\ Includes(before.users[resp.actor].friends, resp.target)
  /\ ~Includes(users[resp.actor].friends, resp.target)
  /\ \E c \in Users \ {resp.actor, resp.target} :
       /\ Includes(users[resp.actor].friends, c)
       /\ Includes(users[c].friends, resp.actor)

\* C3: after acceptFriendRequest(A, B) or rejectFriendRequest(A, B) answers
\* 200, B occurs nowhere in A.friendRequests, however often it occurred, and
\* the other entries are the same in the same order.
RequestRemoved ==
  (Answered("accept", Ok) \/ Answered("reject", Ok)) =>
    /\ ~Includes(users[resp.actor].friendRequests, resp.target)
    /\ users[resp.actor].friendRequests =
         Without(before.users[resp.actor].friendRequests, resp.target)

\* a sender pending twice between two other senders was accepted
RequestRemovedWitness ==
  /\ Answered("accept", Ok)
  /\ Count(before.users[resp.actor].friendRequests, resp.target) >= 2
  /\ Len(users[resp.actor].friendRequests) >= 2
  /\ users[resp.actor].friendRequests[1] # users[resp.actor].friendRequests[2]
  /\ ~Includes(users[resp.actor].friendRequests, resp.target)

BadUsernameRejected ==
  (resp.op \in FriendOps /\ resp.target \notin Users) =>
    /\ resp.target = Missing => resp.status = BadRequest
    /\ resp.target = Ghost => resp.status = NotFound
    /\ users = before.users

\* an accept without a username was answered 400 while requests were pending
BadUsernameRejectedWitness ==
  /\ Answered("accept", BadRequest)
  /\ resp.target = Missing
  /\ before.users[resp.actor].friendRequests # <<>>
  /\ users = before.users

\* C6: removeFriend(actor, target), target an existing user, always answers
\* 200; afterwards neither is in the other's friends; when they were not
\* friends the two friends arrays are unchanged; the friendRequests of both
\* are unchanged in every case.
RemoveAlwaysSucceeds ==
  (resp.op = "remove" /\ resp.target \in Users) =>
    /\ resp.status = Ok
    /\ ~Includes(users[resp.actor].friends, resp.target)
    /\ ~Includes(users[resp.target].friends, resp.actor)
    /\ (/\ ~Includes(before.users[resp.actor].friends, resp.target)
        /\ ~Includes(before.users[resp.target].friends, resp.actor))
         => /\ users[resp.actor].friends = before.users[resp.actor].friends
            /\ users[resp.target].friends = before.users[resp.target].friends
    /\ users[resp.actor].friendRequests =
         before.users[resp.actor].friendRequests
    /\ users[resp.target].friendRequests =
         before.users[resp.target].friendRequests

\* C7: rejectFriendRequest(actor, target) changes nothing but
\* actor.friendRequests: friends(actor), the target's record and every other
\* user's record are as before the call.
RejectTouchesOnlyRequests ==
  resp.op = "reject" =>
    /\ \A u \in Users \ {resp.actor} : SameRecord(u)
    /\ users[resp.actor].friends = before.users[resp.actor].friends
    /\ users[resp.actor].groups = before.users[resp.actor].groups
    /\ groups = before.groups

\* a pending request of a user who is also a friend was rejected
RejectTouchesOnlyRequestsWitness ==
  /\ Answered("reject", Ok)
  /\ resp.actor # resp.target
  /\ Includes(before.users[resp.actor].friendRequests, resp.target)
  /\ ~Includes(users[resp.actor].friendRequests, resp.target)
  /\ Includes(users[resp.actor].friends, resp.target)
  /\ Includes(users[resp.target].friends, resp.actor)

GroupBefore ==
  IF resp.group \in DOMAIN before.groups
    THEN before.groups[resp.group].participants
    ELSE <<>>

MemberOps == {"addMember", "removeMember"}

\* C9: addGroupMember / removeGroupMember by an actor who is not in
\* g.participants, or for a group that does not exist, answers 403 and
\* leaves g.participants and every user's groups unchanged.
NonParticipantForbidden ==
  (resp.op \in MemberOps /\ ~Includes(GroupBefore, resp.actor)) =>
    /\ resp.status = Forbidden
    /\ groups = before.groups
    /\ \A u \in Users : users[u].groups = before.users[u].groups

\* a user outside an existing group tried to add a new member to it
NonParticipantForbiddenWitness ==
  /\ Answered("addMember", Forbidden)
  /\ resp.group \in DOMAIN before.groups
  /\ GroupBefore # <<>>
  /\ ~Includes(GroupBefore, resp.actor)
  /\ resp.target \in Users
  /\ ~Includes(GroupBefore, resp.target)
  /\ groups = before.groups

\* the request the membership claims are about: a participant adds a user who
\* is a member, or removes one who is not
RedundantMembershipRequest ==
  /\ resp.op \in MemberOps
  /\ Includes(GroupBefore, resp.actor)
  /\ resp.op = "addMember" => Includes(GroupBefore, resp.target)
  /\ resp.op = "removeMember" => ~Includes(GroupBefore, resp.target)

\* C10 as stated: such a request is answered Conflict (409) and leaves
\* g.participants and u.groups unchanged.
RedundantMembershipConflict ==
  RedundantMembershipRequest =>
    /\ resp.status = Conflict
    /\ groups = before.groups
    /\ users = before.users

\* C10 as amended: such a request is answered 400 and leaves g.participants
\* and u.groups unchanged.
RedundantMembershipBadRequest ==
  RedundantMembershipRequest =>
    /\ resp.status = BadRequest
    /\ groups = before.groups
    /\ users = before.users

\* a participant tried to add another participant again
RedundantMembershipWitness ==
  /\ Answered("addMember", BadRequest)
  /\ resp.actor # resp.target
  /\ Includes(GroupBefore, resp.actor)
  /\ Includes(GroupBefore, resp.target)
  /\ groups = before.groups

\* the groups array of the user with ID u; an ID of no existing user has no
\* record to hold one
GroupsOf(u) == IF u \in Users THEN users[u].groups ELSE <<>>

\* C11: in every state reached by completed createGroup / addGroupMember /
\* removeGroupMember requests, with any participant lists and userId
\* arguments, u is in g.participants iff g is in u.groups, for every group g
\* and user ID u.
MembershipConsistent ==
  \A g \in DOMAIN groups, u \in UserIds :
    Includes(groups[g].participants, u) <=> Includes(GroupsOf(u), g)

\* C12 as stated: removeGroupMember(actor, g, actor) never results in actor
\* leaving g.participants.
SelfRemovalKeepsMember ==
  (resp.op = "removeMember" /\ resp.target = resp.actor
     /\ Includes(GroupBefore, resp.actor)) =>
    Includes(groups[resp.group].participants, resp.actor)

\* C12 as amended: removeGroupMember(actor, g, actor) by a participant of g
\* is answered 200, and actor leaves g.participants and g leaves
\* actor.groups.
SelfRemovalLeaves ==
  (resp.op = "removeMember" /\ resp.target = resp.actor
     /\ Includes(GroupBefore, resp.actor)) =>
    /\ resp.status = Ok
    /\ ~Includes(groups[resp.group].participants, resp.actor)
    /\ ~Includes(users[resp.actor].groups, resp.group)

\* a participant removed themselves from a group that keeps another member
SelfRemovalWitness ==
  /\ Answered("removeMember", Ok)
  /\ resp.target = resp.actor
  /\ Includes(GroupBefore, resp.actor)
  /\ Includes(before.users[resp.actor].groups, resp.group)
  /\ ~Includes(groups[resp.group].participants, resp.actor)
  /\ groups[resp.group].participants # <<>>

\* the set of users in a participants array
Distinct(arr) == {arr[i] : i \in DOMAIN arr}

\* C14: createChat(requester, participantIds) answers 400 and creates no
\* chat unless requester is in participantIds; a chat that is created holds
\* the participants of the request, its creator among them.
CreatorIsParticipant ==
  /\ (resp.op = "createChat" /\ ~Includes(resp.body, resp.actor)) =>
       /\ resp.status = BadRequest
       /\ chats = before.chats
  /\ Answered("createChat", Created) =>
       /\ Includes(resp.body, resp.actor)
       /\ chats = Append(before.chats, [participants |-> resp.body,
                                         messages |-> <<>>])
       /\ Includes(chats[Len(chats)].participants, resp.actor)

\* a user asked for a chat of two other users and was refused
CreatorIsParticipantWitness ==
  /\ Answered("createChat", BadRequest)
  /\ Cardinality(Distinct(resp.body)) = 2
  /\ ~Includes(resp.body, resp.actor)
  /\ chats = before.chats

\* C15: createChat answers 400 and creates no chat when participantIds holds
\* fewer than 2 distinct users, so every stored chat has at least 2 distinct
\* participants.
ChatHasTwoDistinct ==
  /\ (resp.op = "createChat" /\ Cardinality(Distinct(resp.body)) < 2) =>
       /\ resp.status = BadRequest
       /\ chats = before.chats
  /\ \A i \in DOMAIN chats : Cardinality(Distinct(chats[i].participants)) >= 2

\* C16: for every unordered pair of users A, B there is at most one chat
\* whose participant set is exactly {A, B}, so the lookup of the direct chat
\* of A and B matches at most one chat.
DirectChatUnique ==
  \A a \in Users : \A b \in Users \ {a} :
    /\ Cardinality({i \in DOMAIN chats :
                      Distinct(chats[i].participants) = {a, b}}) <= 1
    /\ Cardinality(FindDirectChats(a, b)) <= 1

\* C13: no operation changes the participants of a chat that exists: every
\* chat of the state a request found is still stored, with the same
\* participants, when the request has been answered.
ChatParticipantsImmutable ==
  \A i \in DOMAIN before.chats :
    /\ i \in DOMAIN chats
    /\ chats[i].participants = before.chats[i].participants

\* another chat was created while a chat with a message exists
ChatParticipantsImmutableWitness ==
  /\ Answered("createChat", Created)
  /\ before.chats # <<>>
  /\ before.chats[1].messages # <<>>
  /\ Len(chats) = Len(before.chats) + 1
  /\ chats[1].participants = <<"alice", "bob">>

\* exactly one of the two destination fields is set
OneDestination(chat, group) == (chat # Unset) # (group # Unset)

\* C17: postMessage with both chat and group set, or with neither, answers
\* 400, stores no message, appends to no conversation and emits nothing; so
\* every stored message has exactly one of chat and group set.
DestinationExclusive ==
  /\ (resp.op = "postMessage"
        /\ ~OneDestination(resp.body.chat, resp.body.group)) =>
       /\ resp.status = BadRequest
       /\ messages = before.messages
       /\ chats = before.chats
       /\ groups = before.groups
       /\ inbox = before.inbox
  /\ \A m \in DOMAIN messages :
       OneDestination(messages[m].chat, messages[m].group)

\* occurrences of message m in the message sequences of all conversations
Occurrences(m) ==
  SumLen([i \in DOMAIN chats |->
            SelectSeq(chats[i].messages, LAMBDA x : x = m)], DOMAIN chats)
  + SumLen([g \in DOMAIN groups |->
              SelectSeq(groups[g].messages, LAMBDA x : x = m)], DOMAIN groups)

\* message m is in the sequence of the conversation its destination names
AtDestination(m) ==
  \/ /\ ChatExists(messages[m].chat)
     /\ Includes(chats[ChatIndex(messages[m].chat)].messages, m)
  \/ /\ GroupExists(messages[m].group)
     /\ Includes(groups[messages[m].group].messages, m)

\* C18: every stored message ID occurs in the message sequence of exactly
\* one conversation, exactly once, and that conversation is the one the
\* message's destination names.
MessageInOneConversation ==
  \A m \in DOMAIN messages : Occurrences(m) = 1 /\ AtDestination(m)

\* a is an initial part of b
IsPrefix(a, b) == Len(a) <= Len(b) /\ SubSeq(b, 1, Len(a)) = a

\* C19: the message sequence of every chat and group is append-only: the
\* sequence a request found is a prefix of the one it leaves.
MessagesAppendOnly ==
  /\ \A i \in DOMAIN before.chats :
       /\ i \in DOMAIN chats
       /\ IsPrefix(before.chats[i].messages, chats[i].messages)
  /\ \A g \in DOMAIN before.groups :
       /\ g \in DOMAIN groups
       /\ IsPrefix(before.groups[g].messages, groups[g].messages)

\* a second message was appended to a group whose members had changed
MessagesAppendOnlyWitness ==
  /\ Answered("postMessage", Created)
  /\ before.groups # <<>>
  /\ Len(before.groups[1].messages) = 1
  /\ Len(groups[1].messages) = 2
  /\ groups[1].messages[1] = before.groups[1].messages[1]
  /\ groups[1].participants # <<"alice", "carol">>

\* the newMessage event of the last postMessage
LastEvent ==
  [message |-> Len(messages), sender |-> resp.actor,
   content |-> resp.body.content, chat |-> resp.body.chat,
   group |-> resp.body.group]

\* C20: when postMessage to channel c (the chat, else the group, of the
\* request) answers 201, the newMessage with the message's content and
\* sender reaches every socket that is in room c, and no other socket
\* receives anything.
BroadcastToSubscribers ==
  Answered("postMessage", Created) =>
    \A s \in Sockets :
      inbox[s] =
        IF Channel(resp.body.chat, resp.body.group) \in rooms[s]
          THEN Append(before.inbox[s], LastEvent)
          ELSE before.inbox[s]

\* a message to a chat reached a socket in its room and not a socket that
\* had left the room after an earlier message
BroadcastToSubscribersWitness ==
  /\ Answered("postMessage", Created)
  /\ resp.body.chat # Unset
  /\ \E s \in Sockets, t \in Sockets :
       /\ resp.body.chat \in rooms[s]
       /\ inbox[s] = Append(before.inbox[s], LastEvent)
       /\ resp.body.chat \notin rooms[t]
       /\ \E k \in DOMAIN before.inbox[t] :
            before.inbox[t][k].chat = resp.body.chat
       /\ inbox[t] = before.inbox[t]

\* the message IDs of the events in box, in the order received
Received(box) == [k \in DOMAIN box |-> box[k].message]

\* C23: leaveChat(c) from a socket that is not in room c is handled without
\* an error and leaves the rooms of every socket as they were.
LeaveUnjoinedNoOp ==
  (resp.op = "leaveChat" /\ resp.body[1] \notin before.rooms[resp.actor]) =>
    /\ resp.status = 0
    /\ rooms = before.rooms

\* a socket that is in one room left another one, which it was not in
LeaveUnjoinedNoOpWitness ==
  /\ resp.op = "leaveChat"
  /\ resp.body[1] \notin before.rooms[resp.actor]
  /\ before.rooms[resp.actor] # {}
  /\ rooms[resp.actor] = before.rooms[resp.actor]

\* C24: a joinChat(c) from a socket already in room c changes no room; no
\* socket receives the same message twice; after one leaveChat(c) the
\* socket is out of room c, and a message posted to a room the socket is
\* not in does not reach it.
JoinIdempotentAtMostOnce ==
  /\ (resp.op = "joinChat" /\ resp.body[1] \in before.rooms[resp.actor]) =>
       rooms = before.rooms
  /\ \A s \in Sockets :
       Cardinality(Distinct(Received(inbox[s]))) = Len(inbox[s])
  /\ resp.op = "leaveChat" => resp.body[1] \notin rooms[resp.actor]
  /\ Answered("postMessage", Created) =>
       \A s \in Sockets :
         Channel(resp.body.chat, resp.body.group) \notin rooms[s] =>
           inbox[s] = before.inbox[s]

\* a socket that had joined a room and received a message there joins the
\* room again
JoinIdempotentAtMostOnceWitness ==
  /\ resp.op = "joinChat"
  /\ resp.body[1] \in before.rooms[resp.actor]
  /\ \E k \in DOMAIN inbox[resp.actor] :
       Channel(inbox[resp.actor][k].chat, inbox[resp.actor][k].group)
         = resp.body[1]

\* the users whose clients opened the sockets
SocketUser == [s \in Sockets |-> IF s = "s1" THEN "bob" ELSE "carol"]

\* the participants of the chat or group with the given ID
ParticipantsOf(channel) ==
  IF channel < 0 THEN chats[ChatIndex(channel)].participants
  ELSE groups[channel].participants

\* C25: a socket is in the room of a chat or group only if its user is a
\* participant of that chat or group.
RoomsAuthorized ==
  \A s \in Sockets : \A channel \in rooms[s] :
    Includes(ParticipantsOf(channel), SocketUser[s])

\* C26: listMessages(actor, chatId) answers 404 when no chat has the ID,
\* 403 with no messages when the chat exists and actor is not one of its
\* participants, and returns messages only to a participant.
ListMessagesGated ==
  resp.op = "listMessages" =>
    LET id == resp.body[1]
    IN IF ~ChatExists(id) THEN resp.status = NotFound
       ELSE IF ~Includes(chats[ChatIndex(id)].participants, resp.actor)
              THEN resp.status = Forbidden /\ resp.payload = <<>>
              ELSE resp.status = Ok

\* the collections are as they were when the last request arrived
StoreUnchanged ==
  /\ users = before.users
  /\ groups = before.groups
  /\ chats = before.chats
  /\ messages = before.messages

\* C28: getMessage and setReadStatus answer 404 when no message has the ID,
\* and then leave every collection as it was.
AbsentMessageNotFound ==
  (resp.op \in {"getMessage", "setReadStatus"}
     /\ resp.body[1] \notin DOMAIN before.messages) =>
    /\ resp.status = NotFound
    /\ StoreUnchanged

\* C29: setReadStatus(m, v) on a stored message m sets its isRead to v and
\* leaves its other fields as they were; every other request, and
\* setReadStatus for every other message, leaves each stored message as it
\* was.
OnlyIsReadMutable ==
  \A m \in DOMAIN before.messages :
    /\ m \in DOMAIN messages
    /\ messages[m] =
         IF resp.op = "setReadStatus" /\ resp.body[1] = m
           THEN [before.messages[m] EXCEPT !.isRead = resp.body[2]]
           ELSE before.messages[m]

\* setReadStatus changed the flag of one message while another stored
\* message carries the other value
OnlyIsReadMutableWitness ==
  /\ Answered("setReadStatus", Ok)
  /\ resp.body[1] \in DOMAIN before.messages
  /\ messages[resp.body[1]].isRead = resp.body[2]
  /\ before.messages[resp.body[1]].isRead # resp.body[2]
  /\ \E k \in DOMAIN messages :
       /\ k # resp.body[1]
       /\ messages[k].isRead # resp.body[2]

\* C30: listRelationships(actor) answers 404 when no user record has the
\* actor's ID; otherwise it answers 200 with the actor's friends and the
\* senders of the actor's pending requests, each as an {id, username} pair
\* in the stored order; in both cases every collection stays as it was.
ListRelationshipsExact ==
  resp.op = "listRelationships" =>
    /\ StoreUnchanged
    /\ IF resp.actor \notin Users THEN resp.status = NotFound
       ELSE /\ resp.status = Ok
            /\ Len(resp.payload) = 1
            /\ LET list == resp.payload[1]
                   user == users[resp.actor]
               IN /\ Len(list.friends) = Len(user.friends)
                  /\ \A i \in DOMAIN user.friends :
                       /\ list.friends[i].id = user.friends[i]
                       /\ list.friends[i].username = user.friends[i]
                  /\ Len(list.friendRequests) = Len(user.friendRequests)
                  /\ \A i \in DOMAIN user.friendRequests :
                       /\ list.friendRequests[i].id = user.friendRequests[i]
                       /\ list.friendRequests[i].username
                            = user.friendRequests[i]

\* a user with a friend and a pending request lists both
ListRelationshipsExactWitness ==
  /\ Answered("listRelationships", Ok)
  /\ users[resp.actor].friends # <<>>
  /\ users[resp.actor].friendRequests # <<>>
  /\ resp.payload[1].friends[1].id = users[resp.actor].friends[1]

\* C21: a newMessage is emitted only for a message that is stored and whose
\* ID is in the message sequence of its destination; a postMessage that is
\* answered 500 has emitted nothing.
EmitAfterPersistAndAppend ==
  /\ \A s \in Sockets : \A k \in DOMAIN inbox[s] :
       /\ inbox[s][k].message \in DOMAIN messages
       /\ AtDestination(inbox[s][k].message)
  /\ Answered("postMessage", Internal) => inbox = before.inbox

\* the place of message m in the chat's message sequence
PlaceInChat(id, m) ==
  CHOOSE i \in DOMAIN chats[ChatIndex(id)].messages :
    chats[ChatIndex(id)].messages[i] = m

\* C22: a socket receives the newMessage events of the messages of one chat
\* in the order in which their IDs stand in the chat's message sequence.
FifoPerChannel ==
  \A s \in Sockets : \A i \in DOMAIN inbox[s], j \in DOMAIN inbox[s] :
    (/\ i < j
     /\ inbox[s][i].chat = inbox[s][j].chat
     /\ ChatExists(inbox[s][i].chat)
     /\ inbox[s][i].sender = inbox[s][j].sender) =>
      PlaceInChat(inbox[s][i].chat, inbox[s][i].message)
        < PlaceInChat(inbox[s][i].chat, inbox[s][j].message)

\* C27: listMessages answers a participant with exactly the messages whose
\* IDs are in the chat's sequence, in the sequence's order, each a message
\* posted to this chat with its stored sender and isRead, and with
\* timestamps that never decrease along the list.
ListChronological ==
  Answered("listMessages", Ok) =>
    LET id == resp.body[1]
        ids == chats[ChatIndex(id)].messages
        list == resp.payload
    IN /\ Len(list) = Len(ids)
       /\ \A i \in DOMAIN ids :
            /\ list[i].id = ids[i]
            /\ list[i].chat = id
            /\ list[i].sender.id = messages[ids[i]].sender
            /\ list[i].content = messages[ids[i]].content
            /\ list[i].isRead = messages[ids[i]].isRead
       /\ Cardinality(Distinct(ids)) = Len(ids)
       /\ \A i \in DOMAIN list, j \in DOMAIN list :
            i < j => list[i].timestamp <= list[j].timestamp

\* C35: no user is in their own friends or in their own friendRequests.
FriendshipIrreflexive ==
  \A a \in Users :
    /\ ~Includes(users[a].friends, a)
    /\ ~Includes(users[a].friendRequests, a)

\* C36: no user is at once a friend of a user and pending in that user's
\* friendRequests.
PendingDisjointFromFriends ==
  \A a \in Users, b \in Users :
    ~(Includes(users[a].friends, b) /\ Includes(users[a].friendRequests, b))

\* the chat or group with the given ID is stored
ChannelExists(channel) ==
  IF channel < 0 THEN ChatExists(channel) ELSE GroupExists(channel)

\* C37: a postMessage whose actor is not a participant of the chat or group
\* it names is rejected, appends to no sequence and emits nothing; so the
\* sender of every message in the sequence of a chat or group is one of its
\* participants.
PostOnlyByParticipants ==
  /\ (/\ resp.op = "postMessage"
      /\ ChannelExists(Channel(resp.body.chat, resp.body.group))
      /\ ~Includes(ParticipantsOf(Channel(resp.body.chat, resp.body.group)),
                   resp.actor)) =>
       /\ resp.status # Created
       /\ chats = before.chats
       /\ groups = before.groups
       /\ inbox = before.inbox
  /\ \A i \in DOMAIN chats : \A k \in DOMAIN chats[i].messages :
       Includes(chats[i].participants, messages[chats[i].messages[k]].sender)
  /\ \A g \in DOMAIN groups : \A k \in DOMAIN groups[g].messages :
       Includes(groups[g].participants,
                messages[groups[g].messages[k]].sender)

\* C38: the handler of every HTTP request sends exactly one response: the
\* request is answered, and no handler calls a second send or runs on after
\* the first.
OneResponse ==
  resp.op \notin {"none", "joinChat", "leaveChat"} =>
    /\ resp.sends = 1
    /\ resp.status # 0

\* both handler slots hold an answered request to add the same user to the
\* same group
SameAddFinished ==
  /\ \A t \in Tasks : tasks[t].pc = "done"
  /\ tasks["t1"].userId = tasks["t2"].userId
  /\ tasks["t1"].group = tasks["t2"].group

\* C34: the user is at most once in the group's participants and the group
\* at most once in the user's groups, and of two addGroupMember requests for
\* the same user and group one is answered 200 and the other 409.
AddMemberRaceFree ==
  /\ \A g \in DOMAIN groups, u \in UserIds :
       Count(groups[g].participants, u) <= 1
  /\ \A u \in Users, g \in GroupIds : Count(users[u].groups, g) <= 1
  /\ (SameAddFinished
        /\ \A t \in Tasks : tasks[t].status \notin {Forbidden, Internal}) =>
       {tasks[t].status : t \in Tasks} = {Ok, Conflict}

\* C31: when the store fails the second save of acceptFriendRequest(A, B) or
\* removeFriend(A, B), that of A's record, the request is answered 500, B's
\* record keeps what the first save wrote and A's record is as it was.
PartialFailureStays ==
  (/\ resp.op \in {"accept", "remove"}
   /\ resp.body = <<"second">>
   /\ resp.actor # resp.target) =>
    LET a == resp.actor
        b == resp.target
        sent == resp.op = "accept" \/ Includes(before.users[a].friends, b)
    IN /\ users[b].friends =
            IF resp.op = "accept"
              THEN Append(before.users[b].friends, a)
              ELSE FilterOut(before.users[b].friends, a)
       /\ users[b].friendRequests = before.users[b].friendRequests
       /\ sent => resp.status = Internal /\ users[a] = before.users[a]

\* a failed accept: A is a friend of B, B is no friend of A and still
\* pending at A
PartialFailureStaysWitness ==
  /\ Answered("accept", Internal)
  /\ resp.body = <<"second">>
  /\ resp.actor # resp.target
  /\ Includes(users[resp.target].friends, resp.actor)
  /\ ~Includes(users[resp.actor].friends, resp.target)
  /\ Includes(users[resp.actor].friendRequests, resp.target)

\* no handler of the friends router is between its first await and its
\* response
AllFinished == \A t \in Tasks : tasks[t].pc \in {"idle", "done"}

\* C32: once the overlapping acceptFriendRequest and removeFriend handlers
\* of a pair of users have all finished, each of the two is in the other's
\* friends or neither is.
SymmetricAfterRace ==
  AllFinished =>
    \A a \in Users, b \in Users :
      a # b => (Includes(users[a].friends, b) <=> Includes(users[b].friends, a))

\* C33: once a sendFriendRequest(C, A) that was answered 200 and an
\* acceptFriendRequest or rejectFriendRequest of A for another user B have
\* both finished, C is in A.friendRequests.
NoRequestLost ==
  \A s \in Tasks, t \in Tasks :
    (/\ tasks[s].pc = "done"
     /\ tasks[t].pc = "done"
     /\ tasks[s].op = "send"
     /\ tasks[s].status = Ok
     /\ tasks[t].op \in {"accept", "reject"}
     /\ tasks[t].actor = tasks[s].username
     /\ tasks[t].username # tasks[s].actor) =>
      Includes(users[tasks[s].username].friendRequests, tasks[s].actor)

\* carol's request reached alice while alice's reject of bob was between
\* its load and its save: the reject was answered 500 and both requests are
\* pending
NoRequestLostWitness ==
  \E s \in Tasks, t \in Tasks :
    /\ tasks[s].pc = "done"
    /\ tasks[t].pc = "done"
    /\ tasks[s].op = "send"
    /\ tasks[s].actor = "carol"
    /\ tasks[s].status = Ok
    /\ tasks[t].op = "reject"
    /\ tasks[t].status = Internal
    /\ Includes(users["alice"].friendRequests, "carol")
    /\ Includes(users["alice"].friendRequests, "bob")
====
